---- MODULE Spec2Model ----
(***************************************************************************)
(* json-syntax: the rule engine (json_syntax/ruleset.py) and its cache      *)
(* (json_syntax/cache.py), modelled as a state machine, and the pattern     *)
(* algebra (json_syntax/pattern.py), modelled as operators.                 *)
(*                                                                          *)
(* Spec       the engine: outermost lookup calls, executed region by region *)
(*            of SimpleRuleSet.lookup with an explicit call stack, the      *)
(*            rules calling back into lookup for nested types.              *)
(* CacheSpec  the cache alone, driven through its four methods with         *)
(*            arbitrary arguments (as tests/test_cache.py drives it).       *)
(* PatternSpec  one call of matches or of is_ambiguous on patterns drawn    *)
(*            from a bounded universe.                                      *)
(* ThreadSpec the engine with a ThreadLocalCache, its lookups made by two   *)
(*            threads that the interpreter switches between at any step.    *)
(* ErrorSpec  an exception leaving nested ErrorContext blocks and err_ctx   *)
(*            calls (json_syntax/errors.py).                                *)
(***************************************************************************)
EXTENDS Integers, Sequences, FiniteSets, TLC

VARIABLES rules, cache, heap, stack, result, nCalls, returned, failed, scans,
          last, nOps, pat, thread, parked, owner, prog

vars == <<rules, cache, heap, stack, result, nCalls, returned, failed, scans,
          last, nOps, pat, thread, parked, owner, prog>>

(***************************************************************************)
(* Bounds.                                                                  *)
(***************************************************************************)
\* number of outermost lookup calls made on one engine
MaxCalls == 2
\* number of nested ErrorContext blocks and err_ctx calls in ErrorSpec
MaxBlocks == 2
\* number of cache method calls made in CacheSpec
MaxOps == 4
\* nesting depth of the values an action is applied to
MaxDepth == 3
\* the largest number of elements, items or branches of the pattern nodes
\* that are enumerated
MaxArity == 2

(***************************************************************************)
(* Verbs and type descriptors.                                              *)
(***************************************************************************)
JSON2PY == "json_to_python"
PATTERN == "show_pattern"
Verbs == {JSON2PY, PATTERN}

\* typ is None
None == "None"
\* the type descriptors of the model:
\*   Color     an Enum subclass
\*   ListT     T = List[T]
\*   RecA      dataclass RecA: b: RecB
\*   RecB      dataclass RecB: a: RecA; c: Color
\*   Nope      a type no rule handles
\*   ListNope  List[Nope]
\*   P         dataclass P: q: Q; xs: List[Nope]
\*   Q         dataclass Q: p: P
\*   BadOpt    an Optional for which the optional rule raises
\*   Unhash    a dataclass whose metaclass sets __hash__ = None
\*   Unknown   the pattern.Unknown object, when it is passed on as typ
Unhashable == {"Unhash"}
Hashable == {"Color", "ListT", "RecA", "RecB", "Nope", "ListNope", "P", "Q",
             "BadOpt", "Unknown"}
Types == Hashable \cup Unhashable

(***************************************************************************)
(* References to Python objects.  `is` is equality of references.           *)
(***************************************************************************)
NoneRef == [kind |-> "none", id |-> 0]
NotImplementedRef == [kind |-> "notimpl", id |-> 0]
\* pattern.Unknown, a module-level singleton
UnknownRef == [kind |-> "unknown", id |-> 0]
\* the i-th object of the heap, a ForwardAction
Fwd(i) == [kind |-> "fwd", id |-> i]
\* the i-th object of the heap, an action built by a rule
Act(i) == [kind |-> "action", id |-> i]

\* a ForwardAction whose __call__ is still `unfulfilled` has call = NoneRef
ForwardAction(verb, typ) ==
  [rule |-> "", verb |-> verb, typ |-> typ, kids |-> <<>>, call |-> NoneRef]

\* the action a rule builds: a partial closing over the nested actions
RuleAction(rule, verb, typ, kids) ==
  [rule |-> rule, verb |-> verb, typ |-> typ, kids |-> kids, call |-> NoneRef]

(***************************************************************************)
(* Python dict.                                                             *)
(***************************************************************************)
DictGet(d, k) == IF k \in DOMAIN d THEN d[k] ELSE NoneRef
DictSet(d, k, v) == [x \in (DOMAIN d) \cup {k} |-> IF x = k THEN v ELSE d[x]]
DictDel(d, k) == [x \in (DOMAIN d) \ {k} |-> d[x]]
EmptyDict == [x \in {} |-> NoneRef]

(***************************************************************************)
(* SimpleCache.  Every method maps the cache dict c and the heap h to       *)
(*   [cache, heap, ret, warns, exc].                                        *)
(***************************************************************************)
Out(c, h, ret, warns, exc) ==
  [cache |-> c, heap |-> h, ret |-> ret, warns |-> warns, exc |-> exc]

\* a variant that lets the hashing TypeError escape instead of warning
LookupNoCatch(c, verb, typ) ==
  IF typ \in Unhashable
  THEN [ret |-> NoneRef, warns |-> 0, exc |-> "TypeError"]
  ELSE [ret |-> DictGet(c, <<verb, typ>>), warns |-> 0, exc |-> ""]

_lookup(c, verb, typ) ==
  IF typ \in Unhashable
  THEN [ret |-> NotImplementedRef, warns |-> 1, exc |-> ""]
  ELSE [ret |-> DictGet(c, <<verb, typ>>), warns |-> 0, exc |-> ""]

get(c, h, verb, typ) ==
  LET r == _lookup(c, verb, typ)
  IN  Out(c, h, IF r.ret # NotImplementedRef THEN r.ret ELSE NoneRef,
          r.warns, r.exc)

\* a variant that builds the forward action but does not store it
InFlightNoStore(c, h, verb, typ) ==
  LET r == _lookup(c, verb, typ)
  IN  IF r.exc = "" /\ r.ret = NoneRef
      THEN Out(c, Append(h, ForwardAction(verb, typ)), Fwd(Len(h) + 1),
               r.warns, "")
      ELSE Out(c, h, NoneRef, r.warns, r.exc)

in_flight(c, h, verb, typ) ==
  LET r == _lookup(c, verb, typ)
  IN  IF r.exc = "" /\ r.ret = NoneRef
      THEN Out(DictSet(c, <<verb, typ>>, Fwd(Len(h) + 1)),
               Append(h, ForwardAction(verb, typ)), Fwd(Len(h) + 1),
               r.warns, "")
      ELSE Out(c, h, NoneRef, r.warns, r.exc)

\* a variant that removes the entry whatever it is
DeFlightAlways(c, h, verb, typ, forward) ==
  LET r == _lookup(c, verb, typ)
  IN  IF r.exc = "" /\ typ \notin Unhashable /\ <<verb, typ>> \in DOMAIN c
      THEN Out(DictDel(c, <<verb, typ>>), h, NoneRef, r.warns, "")
      ELSE Out(c, h, NoneRef, r.warns, r.exc)

\* a variant that never removes the entry
DeFlightKeeps(c, h, verb, typ, forward) ==
  LET r == _lookup(c, verb, typ)
  IN  Out(c, h, NoneRef, r.warns, r.exc)

de_flight(c, h, verb, typ, forward) ==
  LET r == _lookup(c, verb, typ)
  IN  IF r.exc = "" /\ r.ret = forward
      THEN IF typ \in Unhashable
           THEN Out(c, h, NoneRef, r.warns, "TypeError")
           ELSE IF <<verb, typ>> \in DOMAIN c
                THEN Out(DictDel(c, <<verb, typ>>), h, NoneRef, r.warns, "")
                ELSE Out(c, h, NoneRef, r.warns, "KeyError")
      ELSE Out(c, h, NoneRef, r.warns, r.exc)

\* a variant that replaces the cache entry without fulfilling the cell
CompleteNoFulfil(c, h, verb, typ, action) ==
  LET r == _lookup(c, verb, typ)
  IN  IF r.exc # "" \/ r.ret = NotImplementedRef
      THEN Out(c, h, NoneRef, r.warns, r.exc)
      ELSE IF r.ret = NoneRef \/ r.ret.kind = "fwd"
           THEN Out(DictSet(c, <<verb, typ>>, action), h, NoneRef, r.warns, "")
           ELSE Out(c, h, NoneRef, r.warns, "")

\* a variant that fulfils the cell and leaves the cell as the cache entry
CompleteKeepsCell(c, h, verb, typ, action) ==
  LET r == _lookup(c, verb, typ)
  IN  IF r.exc # "" \/ r.ret = NotImplementedRef
      THEN Out(c, h, NoneRef, r.warns, r.exc)
      ELSE IF r.ret = NoneRef
           THEN Out(DictSet(c, <<verb, typ>>, action), h, NoneRef, r.warns, "")
           ELSE IF r.ret.kind = "fwd"
                THEN Out(c, [h EXCEPT ![r.ret.id].call = action], NoneRef,
                         r.warns, "")
                ELSE Out(c, h, NoneRef, r.warns, "")

complete(c, h, verb, typ, action) ==
  LET r == _lookup(c, verb, typ)
  IN  IF r.exc # "" \/ r.ret = NotImplementedRef
      THEN Out(c, h, NoneRef, r.warns, r.exc)
      ELSE IF r.ret = NoneRef
           THEN Out(DictSet(c, <<verb, typ>>, action), h, NoneRef, r.warns, "")
           ELSE IF r.ret.kind = "fwd"
                THEN Out(DictSet(c, <<verb, typ>>, action),
                         [h EXCEPT ![r.ret.id].call = action], NoneRef,
                         r.warns, "")
                ELSE Out(c, h, NoneRef, r.warns, "")

\* SimpleCache.access(): the context manager that yields the cache
access(c) == c

(***************************************************************************)
(* The rules.  A rule either declines (returns None), raises, or builds an  *)
(* action after looking up the actions of the nested types through ctx.     *)
(***************************************************************************)
\* attrs.py: the verbs attrs_classes handles (JPI); PATTERN is not one
JPI == {JSON2PY}

\* the fields of the dataclasses of the model, in declaration order
Fields(typ) ==
  CASE typ = "RecA" -> <<"RecB">>
    [] typ = "RecB" -> <<"RecA", "Color">>
    [] typ = "P" -> <<"Q", "ListNope">>
    [] typ = "Q" -> <<"P">>
    [] OTHER -> <<>>
Dataclasses == {"RecA", "RecB", "P", "Q", "Unhash"}

\* the rule gets past its guards for (verb, typ)
Handles(rule, verb, typ) ==
  CASE rule = "enums" -> typ = "Color"
    [] rule = "faux_enums" -> typ = "Color"
    [] rule = "optional" -> typ = "BadOpt"
    [] rule = "lists" -> typ \in {"ListT", "ListNope"}
    [] rule = "attrs_classes" -> verb \in JPI /\ typ \in Dataclasses
    [] OTHER -> FALSE

\* the rule raises its own TypeError for (verb, typ)
Raises(rule, verb, typ) == rule = "optional" /\ typ = "BadOpt"

\* the nested lookups the rule makes, in order, as [typ, accept_missing]
Inner(rule, verb, typ) ==
  CASE rule = "lists" /\ typ = "ListT" ->
         <<[typ |-> "ListT", accept_missing |-> FALSE]>>
    [] rule = "lists" /\ typ = "ListNope" ->
         <<[typ |-> "Nope", accept_missing |-> FALSE]>>
    [] rule = "attrs_classes" ->
         [j \in 1..Len(Fields(typ)) |->
            [typ |-> Fields(typ)[j], accept_missing |-> TRUE]]
    [] OTHER -> <<>>

\* the rule builds a pattern node around the patterns of the nested types:
\* pat.Alternatives([pat.Null, inner]) and pat.Array.homog(inner)
BuildsPattern(rule, verb) == verb = PATTERN /\ rule \in {"optional", "lists"}

\* isinstance(elem, Pattern), asserted by the constructors of the pattern
\* nodes: what a rule or the fallback returned for PATTERN is a Pattern, a
\* ForwardAction is not
IsPattern(ref) == ref.kind \in {"unknown", "action"}

\* the two registration orders of the model: enums and faux_enums swapped
RuleOrders ==
  { <<"enums", "faux_enums", "optional", "lists", "attrs_classes">>,
    <<"faux_enums", "enums", "optional", "lists", "attrs_classes">> }

\* a variant that walks the rule list from its end
RuleAtReversed(rs, i) == rs[Len(rs) + 1 - i]

\* `for rule in self.rules`: the i-th rule tried
RuleAt(rs, i) == rs[i]

\* SimpleRuleSet.fallback, which RuleSet overrides: no fallback action
FallbackAbsent(verb, typ) == NoneRef

\* RuleSet.fallback
fallback(verb, typ) == IF verb = PATTERN THEN UnknownRef ELSE NoneRef

\* an object returned by fallback, used as a type descriptor
TypOf(ref) == IF ref = UnknownRef THEN "Unknown" ELSE None

(***************************************************************************)
(* Exceptions.                                                              *)
(***************************************************************************)
NoExc == [kind |-> "", verb |-> "", typ |-> ""]
\* TypeError("Attempted to find {verb} for 'None'")
MissingTypeError(verb) == [kind |-> "MissingType", verb |-> verb, typ |-> None]
\* TypeError("Failed: lookup({verb}, {typ})")
FailedError(verb, typ) == [kind |-> "Failed", verb |-> verb, typ |-> typ]
\* TypeError("Could not find inner type for Optional: {typ}")
OptionalError(verb, typ) == [kind |-> "Optional", verb |-> verb, typ |-> typ]
\* an exception escaping from a cache method
CacheError(name, verb, typ) == [kind |-> name, verb |-> verb, typ |-> typ]
\* TypeError("Forward reference was never fulfilled to {verb} for {typ}")
UnfulfilledError(verb, typ) ==
  [kind |-> "Unfulfilled", verb |-> verb, typ |-> typ]
\* AssertionError of `assert all(isinstance(elem, Pattern) ...)`
AssertionError(verb, typ) == [kind |-> "Assertion", verb |-> verb, typ |-> typ]

\* the Python class of an exception: every exception the engine and the
\* cache raise themselves is a plain TypeError
ExcClass(e) ==
  CASE e.kind \in {"MissingType", "Failed", "Optional", "Unfulfilled"} ->
         "TypeError"
    [] e.kind = "Assertion" -> "AssertionError"
    [] OTHER -> e.kind

\* a variant whose forward action does nothing until it is fulfilled
InvokeSilent(h, ref) == NoExc

\* ForwardAction.__call__ on a value: the exception raised, or NoExc.  Until
\* complete() replaces it, the callable is the closure `unfulfilled` that
\* in_flight made, which holds in_flight's verb and typ
Invoke(h, ref) ==
  IF h[ref.id].call = NoneRef
  THEN UnfulfilledError(h[ref.id].verb, h[ref.id].typ)
  ELSE NoExc

(***************************************************************************)
(* Applying an action to a value nested d levels deep: "ok", or the error   *)
(* raised first.  An action built by a rule calls its nested actions on the *)
(* parts of the value; a ForwardAction calls its __call__.                  *)
(***************************************************************************)
RECURSIVE Apply(_, _, _)
RECURSIVE ApplyAll(_, _, _)
ApplyAll(h, kids, d) ==
  IF kids = <<>> THEN "ok"
  ELSE LET r == Apply(h, Head(kids), d)
       IN  IF r # "ok" THEN r ELSE ApplyAll(h, Tail(kids), d)

Apply(h, ref, d) ==
  CASE ref.kind = "none" -> "notcallable"
    [] ref.kind = "unknown" -> "ok"
    [] ref.kind = "const" -> "ok"
    [] ref.kind = "fwd" ->
         IF h[ref.id].call = NoneRef THEN "unfulfilled"
         ELSE Apply(h, h[ref.id].call, d)
    [] ref.kind = "action" ->
         IF d = 0 THEN "ok" ELSE ApplyAll(h, h[ref.id].kids, d - 1)
    [] OTHER -> "notcallable"

\* an unfulfilled ForwardAction can be reached from ref
Dangling(h, ref) ==
  \E d \in 0..(Len(h) + 1) : Apply(h, ref, d) = "unfulfilled"

(***************************************************************************)
(* SimpleRuleSet.lookup, one stack frame per call.                          *)
(*   pc      "start"  the call has been made, nothing has run               *)
(*           "scan"   inside the try block, about to call rule i            *)
(*           "rule"   inside rule i, which has made Len(kids) nested lookups*)
(*           "except" an exception of a nested lookup is passing through    *)
(*           "done"   the finally clause has run; res or exc is the outcome *)
(*   via     the exit taken (the trace message of the code)                 *)
(*   invoked, fb, ops, warns: the rules called, the number of fallback      *)
(*           calls, the cache methods called and the warnings emitted by    *)
(*           this call                                                      *)
(*   typ0    the typ argument; typ is the local variable                    *)
(*   prior   what earlier lookups of (verb, typ0) had returned when this    *)
(*           call was made; retry: when it was made, the latest lookup of   *)
(*           (verb, typ0) to have come to an end had raised                 *)
(***************************************************************************)
Key(verb, typ) == <<verb, typ>>

Frame(verb, typ, accept_missing) ==
  [verb |-> verb, typ |-> typ, typ0 |-> typ, accept_missing |-> accept_missing,
   pc |-> "start", via |-> "", fwd |-> NoneRef, i |-> 1, kids |-> <<>>,
   res |-> NoneRef, exc |-> NoExc, invoked |-> <<>>, fb |-> 0, ops |-> <<>>,
   warns |-> 0,
   prior |-> IF Key(verb, typ) \in DOMAIN returned
             THEN returned[Key(verb, typ)] ELSE {},
   retry |-> Key(verb, typ) \in failed]

top == stack[Len(stack)]
SetTop(f) == [stack EXCEPT ![Len(stack)] = f]
Running(pc) == stack # <<>> /\ top.pc = pc

\* a variant that consults the fallback whether or not accept_missing is set
ResolveMissingAlways(verb, typ, accept_missing) ==
  IF typ = None
  THEN [typ |-> TypOf(fallback(verb, typ)), fb |-> 1,
        raise |-> fallback(verb, typ) = NoneRef]
  ELSE [typ |-> typ, fb |-> 0, raise |-> FALSE]

\* lines 40-45: what typ is after the None check, the number of fallback
\* calls made, and whether the missing-type TypeError is raised
ResolveMissing(verb, typ, accept_missing) ==
  IF typ = None
  THEN IF accept_missing
       THEN [typ |-> TypOf(fallback(verb, typ)), fb |-> 1,
             raise |-> fallback(verb, typ) = NoneRef]
       ELSE [typ |-> None, fb |-> 0, raise |-> TRUE]
  ELSE [typ |-> typ, fb |-> 0, raise |-> FALSE]

\* a variant that returns None whenever no action was found
MustRaiseNever(action, accept_missing) == FALSE

\* line 72: the Failed TypeError is raised
MustRaise(action, accept_missing) == action = NoneRef /\ ~accept_missing

\* the frame after the finally clause (line 70) and the exit
Finish(f, d, via, res, exc) ==
  [f EXCEPT !.pc = "done",
            !.ops = Append(@, "de_flight"),
            !.warns = @ + d.warns,
            !.via = IF d.exc # "" THEN "raised" ELSE via,
            !.res = IF d.exc # "" THEN NoneRef ELSE res,
            !.exc = IF d.exc # "" THEN CacheError(d.exc, f.verb, f.typ)
                    ELSE exc]

Bump(d, k) == DictSet(d, k, IF k \in DOMAIN d THEN d[k] + 1 ELSE 1)

\* the lookups a caller of the engine makes
Requests ==
  ({JSON2PY} \X (Types \ {"Unknown"}) \X {FALSE})
    \cup ({JSON2PY} \X {None, "Nope", "RecA", "Unhash"} \X {TRUE})
    \cup ({PATTERN} \X {None, "Nope", "RecA", "ListT", "ListNope"} \X {FALSE})
    \cup ({JSON2PY} \X {None} \X {FALSE})
    \cup ({PATTERN} \X {None} \X {TRUE})

\* a caller outside the engine calls lookup
Call(verb, typ, accept_missing) ==
  /\ stack = <<>>
  /\ nCalls < MaxCalls
  /\ stack' = <<Frame(verb, typ, accept_missing)>>
  /\ nCalls' = nCalls + 1
  /\ scans' = EmptyDict
  /\ result' = [res |-> NoneRef, exc |-> NoExc]
  /\ UNCHANGED <<rules, cache, heap, returned, failed, last, nOps, pat>>

\* lines 40-45: typ is None and the missing-type TypeError is raised
LookupMissing ==
  /\ Running("start")
  /\ LET m == ResolveMissing(top.verb, top.typ, top.accept_missing)
     IN  /\ m.raise
         /\ stack' = SetTop([top EXCEPT !.pc = "done", !.via = "missing",
                                        !.fb = @ + m.fb,
                                        !.exc = MissingTypeError(top.verb)])
  /\ UNCHANGED <<rules, cache, heap, result, nCalls, returned, failed, scans,
                 last, nOps, pat>>

\* lines 40-51: the cache holds an entry and it is returned
LookupCached ==
  /\ Running("start")
  /\ LET m == ResolveMissing(top.verb, top.typ, top.accept_missing)
         g == get(access(cache), heap, top.verb, m.typ)
     IN  /\ ~m.raise
         /\ g.ret # NoneRef
         /\ stack' = SetTop([top EXCEPT !.pc = "done", !.via = "cached",
                                        !.typ = m.typ, !.fb = @ + m.fb,
                                        !.ops = Append(@, "get"),
                                        !.warns = @ + g.warns,
                                        !.res = g.ret])
  /\ UNCHANGED <<rules, cache, heap, result, nCalls, returned, failed, scans,
                 last, nOps, pat>>

\* lines 40-53: a cache miss; the forward action is put in flight
LookupInFlight ==
  /\ Running("start")
  /\ LET m == ResolveMissing(top.verb, top.typ, top.accept_missing)
         g == get(access(cache), heap, top.verb, m.typ)
         f == in_flight(g.cache, g.heap, top.verb, m.typ)
     IN  /\ ~m.raise
         /\ g.ret = NoneRef
         /\ cache' = f.cache
         /\ heap' = f.heap
         /\ stack' = SetTop([top EXCEPT !.pc = "scan", !.typ = m.typ,
                                        !.fb = @ + m.fb,
                                        !.ops = @ \o <<"get", "in_flight">>,
                                        !.warns = @ + g.warns + f.warns,
                                        !.fwd = f.ret])
         /\ scans' = Bump(scans, Key(top.verb, m.typ))
  /\ UNCHANGED <<rules, result, nCalls, returned, failed, last, nOps, pat>>

\* lines 56-58: rule i returns None
RuleDeclines ==
  /\ Running("scan")
  /\ top.i <= Len(rules)
  /\ ~Handles(RuleAt(rules, top.i), top.verb, top.typ)
  /\ stack' = SetTop([top EXCEPT !.i = @ + 1,
                                 !.invoked = Append(@, RuleAt(rules, top.i))])
  /\ UNCHANGED <<rules, cache, heap, result, nCalls, returned, failed, scans,
                 last, nOps, pat>>

\* line 57: rule i is called and gets past its guards
RuleStarts ==
  /\ Running("scan")
  /\ top.i <= Len(rules)
  /\ Handles(RuleAt(rules, top.i), top.verb, top.typ)
  /\ ~Raises(RuleAt(rules, top.i), top.verb, top.typ)
  /\ stack' = SetTop([top EXCEPT !.pc = "rule", !.kids = <<>>,
                                 !.invoked = Append(@, RuleAt(rules, top.i))])
  /\ UNCHANGED <<rules, cache, heap, result, nCalls, returned, failed, scans,
                 last, nOps, pat>>

\* lines 57, 70: rule i raises; the finally clause runs
RuleRaises ==
  /\ Running("scan")
  /\ top.i <= Len(rules)
  /\ Handles(RuleAt(rules, top.i), top.verb, top.typ)
  /\ Raises(RuleAt(rules, top.i), top.verb, top.typ)
  /\ LET d == de_flight(cache, heap, top.verb, top.typ, top.fwd)
         f == [top EXCEPT !.invoked = Append(@, RuleAt(rules, top.i))]
     IN  /\ cache' = d.cache
         /\ heap' = d.heap
         /\ stack' = SetTop(Finish(f, d, "raised", NoneRef,
                                   OptionalError(top.verb, top.typ)))
  /\ UNCHANGED <<rules, result, nCalls, returned, failed, scans, last, nOps,
                 pat>>

\* inside rule i: ctx.lookup is called for the next nested type
RuleLooksUp ==
  /\ Running("rule")
  /\ LET inner == Inner(RuleAt(rules, top.i), top.verb, top.typ)
         n == Len(top.kids) + 1
     IN  /\ n <= Len(inner)
         /\ stack' = Append(stack, Frame(top.verb, inner[n].typ,
                                         inner[n].accept_missing))
  /\ UNCHANGED <<rules, cache, heap, result, nCalls, returned, failed, scans,
                 last, nOps, pat>>

\* lines 58-61, 70: rule i returns its action; it is completed and returned
RuleReturns ==
  /\ Running("rule")
  /\ Len(top.kids) = Len(Inner(RuleAt(rules, top.i), top.verb, top.typ))
  /\ BuildsPattern(RuleAt(rules, top.i), top.verb) =>
       \A j \in 1..Len(top.kids) : IsPattern(top.kids[j])
  /\ LET action == Act(Len(heap) + 1)
         h == Append(heap, RuleAction(RuleAt(rules, top.i), top.verb, top.typ,
                                      top.kids))
         c == complete(cache, h, top.verb, top.typ, action)
         d == de_flight(c.cache, c.heap, top.verb, top.typ, top.fwd)
         f == [top EXCEPT !.ops = Append(@, "complete"),
                          !.warns = @ + c.warns]
     IN  /\ cache' = d.cache
         /\ heap' = d.heap
         /\ stack' = SetTop(Finish(f, d, "computed", action, NoExc))
  /\ UNCHANGED <<rules, result, nCalls, returned, failed, scans, last, nOps,
                 pat>>

\* lines 57, 70: rule i was given a forward action by a nested lookup and
\* builds a pattern node around it; the assertion of the node's constructor
\* fails and the finally clause runs
RuleAsserts ==
  /\ Running("rule")
  /\ Len(top.kids) = Len(Inner(RuleAt(rules, top.i), top.verb, top.typ))
  /\ BuildsPattern(RuleAt(rules, top.i), top.verb)
  /\ \E j \in 1..Len(top.kids) : ~IsPattern(top.kids[j])
  /\ LET d == de_flight(cache, heap, top.verb, top.typ, top.fwd)
     IN  /\ cache' = d.cache
         /\ heap' = d.heap
         /\ stack' = SetTop(Finish(top, d, "raised", NoneRef,
                                   AssertionError(top.verb, top.typ)))
  /\ UNCHANGED <<rules, result, nCalls, returned, failed, scans, last, nOps,
                 pat>>

\* line 70: an exception raised by a nested lookup leaves rule i and lookup
Propagate ==
  /\ Running("except")
  /\ LET d == de_flight(cache, heap, top.verb, top.typ, top.fwd)
     IN  /\ cache' = d.cache
         /\ heap' = d.heap
         /\ stack' = SetTop(Finish(top, d, "raised", NoneRef, top.exc))
  /\ UNCHANGED <<rules, result, nCalls, returned, failed, scans, last, nOps,
                 pat>>

\* lines 63-73: every rule declined; the fallback decides
Fallback ==
  /\ Running("scan")
  /\ top.i > Len(rules)
  /\ LET action == fallback(top.verb, top.typ)
         c == IF action # NoneRef
              THEN complete(cache, heap, top.verb, top.typ, action)
              ELSE Out(cache, heap, NoneRef, 0, "")
         d == de_flight(c.cache, c.heap, top.verb, top.typ, top.fwd)
         f == [top EXCEPT !.fb = @ + 1,
                          !.ops = IF action # NoneRef
                                  THEN Append(@, "complete") ELSE @,
                          !.warns = @ + c.warns]
     IN  /\ cache' = d.cache
         /\ heap' = d.heap
         /\ stack' = SetTop(
              IF action # NoneRef
              THEN Finish(f, d, "fallback", action, NoExc)
              ELSE IF MustRaise(action, top.accept_missing)
                   THEN Finish(f, d, "failed", NoneRef,
                               FailedError(top.verb, top.typ))
                   ELSE Finish(f, d, "none", NoneRef, NoExc))
  /\ UNCHANGED <<rules, result, nCalls, returned, failed, scans, last, nOps,
                 pat>>

\* the call returns or raises to its caller: the rule that made it, or the
\* caller outside the engine
Return ==
  /\ Running("done")
  /\ LET f == top
         n == Len(stack)
         k == Key(f.verb, f.typ)
     IN  /\ returned' = IF f.exc = NoExc /\ f.res # NoneRef
                        THEN DictSet(returned, k,
                                     (IF k \in DOMAIN returned
                                      THEN returned[k] ELSE {}) \cup {f.res})
                        ELSE returned
         /\ failed' = IF f.exc # NoExc /\ f.typ # None
                      THEN failed \cup {k}
                      ELSE IF f.res.kind \in {"none", "fwd"}
                           THEN failed ELSE failed \ {k}
         /\ IF n = 1
            THEN /\ stack' = <<>>
                 /\ result' = [res |-> f.res, exc |-> f.exc]
            ELSE /\ result' = result
                 /\ stack' =
                      [SubSeq(stack, 1, n - 1) EXCEPT ![n - 1] =
                         IF f.exc # NoExc
                         THEN [@ EXCEPT !.pc = "except", !.exc = f.exc]
                         ELSE [@ EXCEPT !.kids = Append(@, f.res)]]
  /\ UNCHANGED <<rules, cache, heap, nCalls, scans, last, nOps, pat>>

\* no function of the pattern algebra has been called
NoCall == [op |-> ""]

\* no ErrorContext block has been entered
NoProg == [pc |-> ""]

\* the objects of the heap made by this step belong to the running thread
Owned ==
  owner' = [j \in 1..Len(heap') |->
              IF j \in DOMAIN owner THEN owner[j] ELSE thread]

\* the running thread takes the step, and no ErrorContext block is involved
SameThread == Owned /\ UNCHANGED <<thread, parked, prog>>

MainThreadInit ==
  /\ thread = "main"
  /\ parked = EmptyDict
  /\ owner = <<>>
  /\ prog = NoProg

NoOp == [op |-> "", verb |-> "", typ |-> "", arg |-> NoneRef,
         ret |-> NoneRef, warns |-> 0, exc |-> "", err |-> NoExc,
         before |-> EmptyDict, present |-> NoneRef]

Init ==
  /\ rules \in RuleOrders
  /\ cache = EmptyDict
  /\ heap = <<>>
  /\ stack = <<>>
  /\ result = [res |-> NoneRef, exc |-> NoExc]
  /\ nCalls = 0
  /\ returned = EmptyDict
  /\ failed = {}
  /\ scans = EmptyDict
  /\ last = NoOp
  /\ nOps = 0
  /\ pat = NoCall
  /\ MainThreadInit

Next ==
  \/ /\ \E r \in Requests : Call(r[1], r[2], r[3])
     /\ SameThread
  \/ /\ LookupMissing
     /\ SameThread
  \/ /\ LookupCached
     /\ SameThread
  \/ /\ LookupInFlight
     /\ SameThread
  \/ /\ RuleDeclines
     /\ SameThread
  \/ /\ RuleStarts
     /\ SameThread
  \/ /\ RuleRaises
     /\ SameThread
  \/ /\ RuleLooksUp
     /\ SameThread
  \/ /\ RuleReturns
     /\ SameThread
  \/ /\ RuleAsserts
     /\ SameThread
  \/ /\ Propagate
     /\ SameThread
  \/ /\ Fallback
     /\ SameThread
  \/ /\ Return
     /\ SameThread

Spec == Init /\ [][Next]_vars

\* the interpreter runs the statement it is at: every step but a new call
Step ==
  \/ LookupMissing
  \/ LookupCached
  \/ LookupInFlight
  \/ RuleDeclines
  \/ RuleStarts
  \/ RuleRaises
  \/ RuleLooksUp
  \/ RuleReturns
  \/ RuleAsserts
  \/ Propagate
  \/ Fallback
  \/ Return

\* Python runs a call that has been made to its end
FairSpec == Spec /\ WF_vars(Step /\ SameThread)

(***************************************************************************)
(* The cache on its own: get, in_flight, complete and de_flight called in   *)
(* any order with any arguments.  last records the latest call: its         *)
(* arguments, what it returned or raised, the warnings it emitted, and the  *)
(* cache dict, the entry and the heap size it found.                        *)
(***************************************************************************)
CacheVerbs == {JSON2PY}
CacheTypes == {"Color", "Nope", "Unhash"}
\* callables made by the caller, as `action` in tests/test_cache.py
Callables == {[kind |-> "const", id |-> 1], [kind |-> "const", id |-> 2]}
\* what a caller can pass as `forward`: None, or a forward action it was given
Forwards == {NoneRef} \cup {Fwd(i) : i \in 1..Len(heap)}

Record(op, verb, typ, arg, o) ==
  [op |-> op, verb |-> verb, typ |-> typ, arg |-> arg, ret |-> o.ret,
   warns |-> o.warns, exc |-> o.exc, before |-> cache,
   err |-> IF op = "call" THEN Invoke(heap, arg) ELSE NoExc,
   present |-> IF typ \in Unhashable THEN NotImplementedRef
               ELSE DictGet(cache, Key(verb, typ))]

CacheStep(op, verb, typ, arg, o) ==
  /\ nOps < MaxOps
  /\ nOps' = nOps + 1
  /\ cache' = o.cache
  /\ heap' = o.heap
  /\ last' = Record(op, verb, typ, arg, o)
  /\ UNCHANGED <<rules, stack, result, nCalls, returned, failed, scans,
                 pat>>

CacheGet(verb, typ) ==
  CacheStep("get", verb, typ, NoneRef, get(cache, heap, verb, typ))

CacheInFlight(verb, typ) ==
  CacheStep("in_flight", verb, typ, NoneRef, in_flight(cache, heap, verb, typ))

CacheComplete(verb, typ, action) ==
  CacheStep("complete", verb, typ, action,
            complete(cache, heap, verb, typ, action))

CacheDeFlight(verb, typ, forward) ==
  CacheStep("de_flight", verb, typ, forward,
            de_flight(cache, heap, verb, typ, forward))

\* the caller applies a forward action that in_flight gave it to a value
CacheCall(f) ==
  LET e == Invoke(heap, f)
  IN  CacheStep("call", heap[f.id].verb, heap[f.id].typ, f,
                Out(cache, heap, heap[f.id].call, 0,
                    IF e = NoExc THEN "" ELSE ExcClass(e)))

CacheInit ==
  /\ rules = <<>>
  /\ cache = EmptyDict
  /\ heap = <<>>
  /\ stack = <<>>
  /\ result = [res |-> NoneRef, exc |-> NoExc]
  /\ nCalls = 0
  /\ returned = EmptyDict
  /\ failed = {}
  /\ scans = EmptyDict
  /\ last = NoOp
  /\ nOps = 0
  /\ pat = NoCall
  /\ MainThreadInit

CacheNext ==
  \/ /\ \E v \in CacheVerbs, t \in CacheTypes : CacheGet(v, t)
     /\ SameThread
  \/ /\ \E v \in CacheVerbs, t \in CacheTypes : CacheInFlight(v, t)
     /\ SameThread
  \/ /\ \E v \in CacheVerbs, t \in CacheTypes, a \in Callables :
          CacheComplete(v, t, a)
     /\ SameThread
  \/ /\ \E v \in CacheVerbs, t \in CacheTypes, f \in Forwards :
          CacheDeFlight(v, t, f)
     /\ SameThread
  \/ /\ \E f \in Forwards \ {NoneRef} : CacheCall(f)
     /\ SameThread

CacheSpec == CacheInit /\ [][CacheNext]_vars

(***************************************************************************)
(* Properties of the engine (Spec, FairSpec).                               *)
(***************************************************************************)
\* C1: on a cache miss the rules are called in registration order, the action
\* returned is the one built by the first rule that does not decline, and no
\* rule after it is called; so with enums and faux_enums swapped the action
\* returned for an Enum is the other rule's.
C1_FirstAcceptingRuleWins ==
  /\ \A n \in 1..Len(stack) :
       stack[n].invoked = SubSeq(rules, 1, Len(stack[n].invoked))
  /\ Running("done") /\ top.via = "computed" =>
       LET k == Len(top.invoked)
       IN  /\ k >= 1
           /\ \A j \in 1..(k - 1) : ~Handles(rules[j], top.verb, top.typ)
           /\ Handles(rules[k], top.verb, top.typ)
           /\ top.res.kind = "action"
           /\ heap[top.res.id].rule = rules[k]

C1_Witness ==
  /\ Running("done") /\ top.via = "computed" /\ top.typ = "Color"
  /\ rules[1] = "faux_enums"
  /\ top.invoked = <<"faux_enums">>
  /\ heap[top.res.id].rule = "faux_enums"

\* C2 as stated: once a lookup of a hashable (verb, type) has returned an
\* action, every later lookup of it returns that very object, calling no rule
\* and no fallback.
C2_Original ==
  Running("done") /\ top.typ0 \in Hashable /\ top.prior # {} =>
    /\ top.exc = NoExc
    /\ \A a \in top.prior : top.res = a
    /\ top.invoked = <<>>
    /\ top.fb = 0

\* C2 amended: once a lookup of a hashable (verb, type) has returned an action
\* that is not a forward action still in flight, every later lookup of it
\* returns that very object by the cached path, calling no rule and no
\* fallback.
C2_CachedActionIsStable ==
  Running("done") /\ top.typ0 \in Hashable =>
    \A a \in top.prior :
      a.kind # "fwd" =>
        /\ top.exc = NoExc
        /\ top.res = a
        /\ top.via = "cached"
        /\ top.invoked = <<>>
        /\ top.fb = 0

C2_Witness ==
  /\ Running("done") /\ Len(stack) = 1 /\ top.typ0 = "RecA"
  /\ top.verb = JSON2PY
  /\ top.via = "cached"
  /\ top.res.kind = "action"
  /\ top.res \in top.prior

\* the types of the model whose graph is cyclic and wholly handled by rules;
\* the lookups of C3 are those of the decode verb
Cyclic == {"ListT", "RecA", "RecB"}
RootCyclic ==
  stack # <<>> /\ stack[1].typ0 \in Cyclic /\ stack[1].verb = JSON2PY

C3_Safe ==
  /\ RootCyclic => \A k \in DOMAIN scans : scans[k] <= 1
  /\ RootCyclic /\ Len(stack) = 1 /\ Running("done") =>
       /\ top.exc = NoExc
       /\ top.res # NoneRef
       /\ ~Dangling(heap, top.res)
       /\ Apply(heap, top.res, MaxDepth) = "ok"

C5_FailureLeavesAbsent ==
  /\ Running("done") /\ top.exc # NoExc /\ top.via # "missing" =>
       /\ Key(top.verb, top.typ) \notin DOMAIN cache
       /\ top.via \in {"failed", "raised"}
       /\ top.via = "failed" =>
            top.exc = FailedError(top.verb, top.typ) /\ ~top.accept_missing
       /\ top.via = "raised" =>
            top.exc.kind \in {"Optional", "Failed", "Assertion"}
  /\ Running("done") /\ top.retry /\ top.res.kind # "fwd" =>
       top.invoked # <<>>

C5_Witness ==
  /\ Running("done") /\ Len(stack) = 1 /\ top.retry
  /\ top.exc = FailedError(JSON2PY, "Nope")
  /\ top.fwd.kind = "fwd"
  /\ top.invoked = rules

C7_MissingTypeRaisesUntouched ==
  Running("done") /\ top.typ0 = None /\ ~top.accept_missing =>
    /\ top.via = "missing"
    /\ top.exc = MissingTypeError(top.verb)
    /\ top.invoked = <<>>
    /\ top.fb = 0
    /\ top.ops = <<>>
    /\ top.fwd = NoneRef

C7_Witness ==
  /\ Running("done") /\ top.typ0 = None /\ ~top.accept_missing
  /\ top.verb = PATTERN
  /\ cache # EmptyDict

\* C8: lookup with typ None and accept_missing true returns the action the
\* fallback gives for None, calling the fallback once and no rule.
C8_FallbackActionReturned ==
  Running("done") /\ top.typ0 = None /\ top.accept_missing
      /\ fallback(top.verb, None) # NoneRef =>
    /\ top.res = fallback(top.verb, None)
    /\ top.fb = 1
    /\ top.invoked = <<>>

\* C9: once the outermost lookup has returned or raised, neither the action
\* it returned nor any entry of the cache is, or reaches, a forward action
\* that is unfulfilled.
C9_NoDanglingForward ==
  stack = <<>> =>
    /\ ~Dangling(heap, result.res)
    /\ \A k \in DOMAIN cache :
         cache[k].kind # "fwd" /\ ~Dangling(heap, cache[k])

(***************************************************************************)
(* Properties of the cache (CacheSpec).                                     *)
(***************************************************************************)
\* C4: complete called while the entry is a forward action in flight fulfils
\* that same object, so that it forwards to the action, and replaces the
\* entry, so that get returns the action itself.
C4_CompleteFulfilsInPlace ==
  last.op = "complete" /\ last.present.kind = "fwd" =>
    /\ last.exc = ""
    /\ heap[last.present.id].rule = ""
    /\ heap[last.present.id].call = last.arg
    /\ \A d \in 0..MaxDepth :
         Apply(heap, last.present, d) = Apply(heap, last.arg, d)
    /\ get(cache, heap, last.verb, last.typ).ret = last.arg
    /\ \A k \in DOMAIN last.before :
         k # Key(last.verb, last.typ) => DictGet(cache, k) = last.before[k]

C4_Witness ==
  /\ last.op = "complete" /\ last.present.kind = "fwd"
  /\ heap[last.present.id].call = last.arg
  /\ cache[Key(last.verb, last.typ)] = last.arg

\* C10: for an unhashable type get returns None, in_flight returns None and
\* registers nothing, complete stores nothing and de_flight removes nothing;
\* each emits one UnhashableType warning, none raises, and the cache dict is
\* left as it was.
C10_UnhashableIsAbsent ==
  last.op # "" /\ last.typ \in Unhashable =>
    /\ last.ret = NoneRef
    /\ last.warns = 1
    /\ last.exc = ""
    /\ cache = last.before
    /\ \A j \in 1..Len(heap) : heap[j].typ \notin Unhashable

C10_Witness ==
  /\ last.op = "de_flight" /\ last.typ \in Unhashable
  /\ last.arg.kind = "fwd"
  /\ cache # EmptyDict
  /\ last.warns = 1

(***************************************************************************)
(* The error of an unfulfilled forward action (CacheSpec).                  *)
(***************************************************************************)
\* the latest call applied a forward action that complete() has not fulfilled
CalledUnfulfilled ==
  last.op = "call" /\ heap[last.arg.id].call = NoneRef

NoRuleAccepts(verb, typ) ==
  \A i \in 1..Len(rules) : ~Handles(RuleAt(rules, i), verb, typ)

\* C12: on a RuleSet, lookup(PATTERN, type) of a non-null hashable type that
\* no rule accepts returns the Unknown pattern and raises nothing; the
\* fallback is called once, after every rule has been called and has
\* declined, and Unknown is the cache entry of (PATTERN, type) afterwards, so
\* that a later lookup returns it from the cache.  For every other verb the
\* fallback returns None, and the lookup ends without an action.
C12_UnknownPatternFallback ==
  /\ Running("done") /\ top.verb = PATTERN /\ top.typ0 \in Hashable
       /\ NoRuleAccepts(PATTERN, top.typ0) =>
       /\ top.res = UnknownRef /\ top.exc = NoExc
       /\ DictGet(cache, Key(PATTERN, top.typ0)) = UnknownRef
       /\ top.via \in {"fallback", "cached"}
       /\ top.via = "cached" => top.invoked = <<>> /\ top.fb = 0
  /\ Running("done") /\ top.via = "fallback" =>
       /\ top.verb = PATTERN
       /\ top.res = UnknownRef
       /\ top.invoked = rules
       /\ NoRuleAccepts(top.verb, top.typ)
       /\ top.ops = <<"get", "in_flight", "complete", "de_flight">>
  /\ \A v \in Verbs \ {PATTERN}, t \in Types : fallback(v, t) = NoneRef
  /\ Running("done") /\ top.verb # PATTERN /\ top.invoked = rules
       /\ NoRuleAccepts(top.verb, top.typ) /\ top.typ0 # None =>
       top.res = NoneRef /\ top.via \in {"failed", "none"}

C12_Witness ==
  /\ Running("done") /\ Len(stack) = 2
  /\ top.verb = PATTERN /\ top.typ0 = "Nope" /\ top.via = "fallback"
  /\ top.res = UnknownRef /\ top.invoked = rules
  /\ cache[Key(PATTERN, "Nope")] = UnknownRef
  /\ stack[1].typ0 = "ListNope"

(***************************************************************************)
(* The pattern algebra (pattern.py).  A pattern object is a record; two     *)
(* records are the same Python object exactly when they are equal, the tag  *)
(* telling apart objects that were built separately from equal parts.       *)
(*   kind   "atom", "string", "unknown", "alts", "array", "object"          *)
(*   value  Atom.value; name, arg: String.name, String.arg, and the name of *)
(*          an _Unknown; match: _Unknown._match; homog: Array._homog,       *)
(*          Object._homog; kids: Alternatives.alts, Array.elems, the values *)
(*          of Object.items; keys: the keys of Object.items                 *)
(***************************************************************************)
\* class Matches(IntEnum)
always == 0
sometimes == 1
potential == 2
never == 3
Matches == {always, sometimes, potential, never}

\* String.arg of a pattern made without one
NoArg == "None"

Node(kind, value, name, arg, match, homog, keys, kids) ==
  [kind |-> kind, tag |-> 0, value |-> value, name |-> name, arg |-> arg,
   match |-> match, homog |-> homog, keys |-> keys, kids |-> kids]

\* a second object built the way p was built
Copy(p) == [p EXCEPT !.tag = @ + 1]

Atom(value) == Node("atom", value, "", NoArg, always, FALSE, <<>>, <<>>)
String(name, arg) ==
  Node("string", "", name, arg, always, FALSE, <<>>, <<>>)
StringExact(string) == String("exact", string)
_Unknown(name, match) ==
  Node("unknown", "", name, NoArg, match, FALSE, <<>>, <<>>)
Alternatives(alts) == Node("alts", "", "", NoArg, always, FALSE, <<>>, alts)
Array(elems, homog) ==
  Node("array", "", "", NoArg, always, homog, <<>>, elems)
ArrayHomog(elem) == Array(<<elem>>, TRUE)
ArrayExact(elems) == Array(elems, FALSE)
Object(items, homog) ==
  Node("object", "", "", NoArg, always, homog,
       [i \in 1..Len(items) |-> items[i][1]],
       [i \in 1..Len(items) |-> items[i][2]])
ObjectHomog(key, val) == Object(<<<<key, val>>>>, TRUE)
ObjectExact(items) == Object(items, FALSE)

\* the module's singletons
StringAny == String("str", NoArg)
Number == Atom("0")
Null == Atom("None")
Bool == Atom("False")
Missing == _Unknown("<missing>", never)
Unknown == _Unknown("<unknown>", potential)

\* Python's == on the values of the atoms: 0 == False
PyEq(a, b) == a = b \/ {a, b} = {"0", "False"}

\* the recognizers that the rules put into String.arg: the ISO date parser
\* of iso_dates and the member check of enums
Accepts(recognizer, string) ==
  CASE recognizer = "convert_date" -> string = "2020-01-01"
    [] recognizer = "check_str_enum" -> string \in {"RED", "BLUE"}
    [] OTHER -> FALSE

RECURSIVE MinOf(_)
MinOf(rs) ==
  IF Len(rs) = 1 THEN rs[1]
  ELSE LET m == MinOf(Tail(rs)) IN IF rs[1] <= m THEN rs[1] ELSE m
RECURSIVE MaxOf(_)
MaxOf(rs) ==
  IF Len(rs) = 1 THEN rs[1]
  ELSE LET m == MaxOf(Tail(rs)) IN IF rs[1] >= m THEN rs[1] ELSE m

\* a variant of the all-reduction that gives the first of its inputs
MatchesAllFirst(rs) == IF rs = <<>> THEN always ELSE rs[1]

\* matches_all = partial(max, default=Matches.always)
matches_all(rs) == IF rs = <<>> THEN always ELSE MaxOf(rs)
\* matches_any = partial(min, default=Matches.never)
matches_any(rs) == IF rs = <<>> THEN never ELSE MinOf(rs)

\* bool() of a member of Matches: the IntEnum value 0, always, is falsy
Falsy(a) == a = 0
\* `a and b`: a when a is falsy and b is not evaluated, b otherwise
PyAnd(a, b) == IF Falsy(a) THEN a ELSE b

\* what a call gives back: its value, the visited set as the call leaves it,
\* and the exception that left it, if any
Ret(res, ctx) == [res |-> res, ctx |-> ctx, exc |-> ""]
Raise(exc, ctx) == [res |-> never, ctx |-> ctx, exc |-> exc]

\* the member of a set of one member.  A call whose result is used more than
\* once is bound as `r \in {call}`, which evaluates it once.
The(S) == CHOOSE x \in S : TRUE

\* the argument ctx=None of matches; a visited set S is passed as <<S>>
NoCtx == <<>>

\* itertools.product of two sequences
product(ls, rs) ==
  [n \in 1..(Len(ls) * Len(rs)) |->
     <<ls[((n - 1) \div Len(rs)) + 1], rs[((n - 1) % Len(rs)) + 1]>>]

\* islice(cycle(s), n)
Cycle(s, n) ==
  IF s = <<>> THEN <<>> ELSE [i \in 1..n |-> s[((i - 1) % Len(s)) + 1]]

\* zip_longest(ls, rs, fillvalue=fill)
zip_longest(ls, rs, fill) ==
  [i \in 1..(IF Len(ls) >= Len(rs) THEN Len(ls) ELSE Len(rs)) |->
     << IF i <= Len(ls) THEN ls[i] ELSE fill,
        IF i <= Len(rs) THEN rs[i] ELSE fill >>]

\* Pattern._unpack and Alternatives._unpack
_unpack(p) == IF p.kind = "alts" THEN p.kids ELSE <<p>>

\* a variant that compares two String patterns by their names alone
StringMatchesByName(self, other) ==
  IF other.kind # "string" THEN never
  ELSE IF self.name = "str" THEN always
  ELSE IF other.name = "str" THEN sometimes
  ELSE IF self.name = other.name THEN always ELSE potential

\* String._matches
StringMatches(self, other) ==
  IF other.kind # "string" THEN never
  ELSE IF self.name = "str" THEN always
  ELSE IF other.name = "str" THEN sometimes
  ELSE IF self.name = "exact"
       THEN IF other.name = "exact"
            THEN (IF self.arg = other.arg THEN always ELSE never)
            ELSE IF other.arg = NoArg THEN potential
            ELSE IF Accepts(other.arg, self.arg) THEN always ELSE never
  ELSE IF self.name = other.name THEN always ELSE potential

(***************************************************************************)
(* matches and the _matches methods.  The generators are consumed in order, *)
(* the visited set ctx passing from each call to the next; an exception     *)
(* ends the evaluation.                                                     *)
(***************************************************************************)
RECURSIVE matches(_, _, _)
RECURSIVE _matches(_, _, _)
RECURSIVE MatchesPairs(_, _, _)
RECURSIVE ArrayPairs(_, _, _)
RECURSIVE ObjectRow(_, _, _, _, _, _)
RECURSIVE ObjectRows(_, _, _, _, _)

\* a variant that does not add the pair to the visited set
MatchesForgets(left, right, ctx) ==
  IF ctx # NoCtx /\ <<left, right>> \in ctx[1]
  THEN Ret(potential, ctx[1])
  ELSE MatchesPairs(product(_unpack(left), _unpack(right)),
                    IF ctx = NoCtx THEN {} ELSE ctx[1], <<>>)

\* matches(left, right, ctx)
matches(left, right, ctx) ==
  IF ctx # NoCtx /\ <<left, right>> \in ctx[1]
  THEN Ret(potential, ctx[1])
  ELSE MatchesPairs(product(_unpack(left), _unpack(right)),
                    (IF ctx = NoCtx THEN {} ELSE ctx[1])
                      \cup {<<left, right>>},
                    <<>>)

\* matches_any(left._matches(right, ctx) for left, right in product(...))
MatchesPairs(pairs, ctx, rs) ==
  IF pairs = <<>> THEN Ret(matches_any(rs), ctx)
  ELSE The({ IF r.exc # "" THEN r
             ELSE MatchesPairs(Tail(pairs), r.ctx, Append(rs, r.res)) :
             r \in {_matches(pairs[1][1], pairs[1][2], ctx)} })

\* matches_all(matches(l, r, ctx) for l, r in zip_longest(left, right, ...))
ArrayPairs(pairs, ctx, rs) ==
  IF pairs = <<>> THEN Ret(matches_all(rs), ctx)
  ELSE The({ IF r.exc # "" THEN r
             ELSE ArrayPairs(Tail(pairs), r.ctx, Append(rs, r.res)) :
             r \in {matches(pairs[1][1], pairs[1][2], <<ctx>>)} })

\* Array._matches
ArrayMatches(self, other, ctx) ==
  IF other.kind # "array" THEN Ret(never, ctx)
  ELSE IF self.homog /\ other.kids = <<>> THEN Ret(always, ctx)
  ELSE LET left == IF self.homog /\ ~other.homog
                   THEN Cycle(self.kids, Len(other.kids)) ELSE self.kids
           right == IF ~self.homog /\ other.homog
                    THEN Cycle(other.kids, Len(self.kids)) ELSE other.kids
       IN  The({ IF r.exc = "" /\ self.homog /\ other.homog
                 THEN Ret(matches_any(<<sometimes, r.res>>), r.ctx)
                 ELSE r :
                 r \in {ArrayPairs(zip_longest(left, right, Missing), ctx,
                                   <<>>)} })

\* matches_any(matches(lk, rk, ctx) and matches(lv, rv, ctx)
\*             for rk, rv in other.items), from the j-th item of other on
ObjectRow(lk, lv, other, j, ctx, rs) ==
  IF j > Len(other.kids) THEN Ret(matches_any(rs), ctx)
  ELSE The({ IF k.exc # "" THEN k
             ELSE The({ IF v.exc # "" THEN v
                        ELSE ObjectRow(lk, lv, other, j + 1, v.ctx,
                                       Append(rs, PyAnd(k.res, v.res))) :
                        v \in {IF Falsy(k.res) THEN k
                               ELSE matches(lv, other.kids[j], <<k.ctx>>)} }) :
             k \in {matches(lk, other.keys[j], <<ctx>>)} })

\* matches_all(matches_any(...) for lk, lv in self.items), from the i-th
\* item of self on
ObjectRows(self, other, i, ctx, rs) ==
  IF i > Len(self.kids) THEN Ret(matches_all(rs), ctx)
  ELSE The({ IF r.exc # "" THEN r
             ELSE ObjectRows(self, other, i + 1, r.ctx, Append(rs, r.res)) :
             r \in {ObjectRow(self.keys[i], self.kids[i], other, 1, ctx,
                              <<>>)} })

\* Object._matches
ObjectMatches(self, other, ctx) ==
  IF other.kind # "object" THEN Ret(never, ctx)
  ELSE IF self.homog /\ other.kids = <<>> THEN Ret(always, ctx)
  ELSE The({ IF r.exc = "" /\ self.homog /\ other.homog
             THEN Ret(matches_any(<<sometimes, r.res>>), r.ctx)
             ELSE r :
             r \in {ObjectRows(self, other, 1, ctx, <<>>)} })

\* self._matches(other, ctx), by the class of self
_matches(self, other, ctx) ==
  CASE self.kind = "atom" ->
         Ret(IF other.kind = "atom" /\ PyEq(self.value, other.value)
             THEN always ELSE never, ctx)
    [] self.kind = "string" -> Ret(StringMatches(self, other), ctx)
    [] self.kind = "unknown" -> Ret(self.match, ctx)
    [] self.kind = "alts" -> Raise("NotImplementedError", ctx)
    [] self.kind = "array" -> ArrayMatches(self, other, ctx)
    [] self.kind = "object" -> ObjectMatches(self, other, ctx)

(***************************************************************************)
(* is_ambiguous, dispatched on the class of the pattern.  It gives back the *)
(* path, a tuple of strings that is empty when nothing is ambiguous, or the *)
(* exception that left it.                                                  *)
(***************************************************************************)
Path(path) == [path |-> path, exc |-> ""]
PathRaise(exc) == [path |-> <<>>, exc |-> exc]

\* str(pattern): the name of an _Unknown, the JSON form of a String
Repr(p) ==
  CASE p.kind = "unknown" -> p.name
    [] p.kind = "string" /\ p.name = "exact" -> "\"=" \o p.arg \o "\""
    [] p.kind = "string" -> "\"" \o p.name \o "\""
    [] p.kind = "atom" -> p.value
    [] OTHER -> p.kind

RECURSIVE is_ambiguous(_, _, _)
RECURSIVE AnyElem(_, _, _, _)
RECURSIVE AnyItem(_, _, _, _)
RECURSIVE AltsLateReversed(_, _, _, _)
RECURSIVE AltsLate(_, _, _, _)
RECURSIVE AltsEarly(_, _, _, _)

\* a variant that asks whether the later branch shadows the earlier one
AltsLateReversed(alts, threshold, i, j) ==
  IF j > Len(alts) THEN [hit |-> FALSE, exc |-> ""]
  ELSE The({ IF m.exc # "" THEN [hit |-> FALSE, exc |-> m.exc]
             ELSE IF m.res <= threshold THEN [hit |-> TRUE, exc |-> ""]
             ELSE AltsLateReversed(alts, threshold, i, j + 1) :
             m \in {matches(alts[j], alts[i], NoCtx)} })

\* _any(is_ambiguous(elem, threshold, _path) for elem in pattern.elems),
\* from the i-th element on
AnyElem(pattern, threshold, _path, i) ==
  IF i > Len(pattern.kids) THEN Path(<<>>)
  ELSE The({ IF r.exc # "" \/ r.path # <<>> THEN r
             ELSE AnyElem(pattern, threshold, _path, i + 1) :
             r \in {is_ambiguous(pattern.kids[i], threshold, _path)} })

\* _any(is_ambiguous(val, threshold, _path + (str(key),))
\*      for key, val in pattern.items), from the i-th item on
AnyItem(pattern, threshold, _path, i) ==
  IF i > Len(pattern.kids) THEN Path(<<>>)
  ELSE The({ IF r.exc # "" \/ r.path # <<>> THEN r
             ELSE AnyItem(pattern, threshold, _path, i + 1) :
             r \in {is_ambiguous(pattern.kids[i], threshold,
                                 Append(_path, Repr(pattern.keys[i])))} })

\* `for late in alts[i + 1:]` for the early branch alts[i], from alts[j] on:
\* TRUE when matches(early, late) <= threshold for one of them.  Indices
\* count from 1 here and from 0 in the code.
AltsLate(alts, threshold, i, j) ==
  IF j > Len(alts) THEN [hit |-> FALSE, exc |-> ""]
  ELSE The({ IF m.exc # "" THEN [hit |-> FALSE, exc |-> m.exc]
             ELSE IF m.res <= threshold THEN [hit |-> TRUE, exc |-> ""]
             ELSE AltsLate(alts, threshold, i, j + 1) :
             m \in {matches(alts[i], alts[j], NoCtx)} })

\* `for i, early in enumerate(alts[:-1])`, from alts[i] on
AltsEarly(alts, threshold, _path, i) ==
  IF i > Len(alts) - 1 THEN Path(<<>>)
  ELSE The({ IF r.exc # "" THEN PathRaise(r.exc)
             ELSE IF r.hit
                  THEN Path(Append(_path, "alternative " \o ToString(i - 1)))
                  ELSE AltsEarly(alts, threshold, _path, i + 1) :
             r \in {AltsLate(alts, threshold, i, i + 1)} })

\* is_ambiguous(pattern, threshold, _path)
is_ambiguous(pattern, threshold, _path) ==
  CASE pattern.kind \in {"atom", "string"} -> Path(<<>>)
    [] pattern.kind = "unknown" ->
         Path(IF pattern.match <= threshold THEN <<Repr(pattern)>> ELSE <<>>)
    [] pattern.kind = "array" ->
         AnyElem(pattern, threshold, Append(_path, "[]"), 1)
    [] pattern.kind = "object" -> AnyItem(pattern, threshold, _path, 1)
    [] pattern.kind = "alts" ->
         AltsEarly(pattern.kids, threshold, _path, 1)
    [] OTHER -> PathRaise("TypeError")

(***************************************************************************)
(* PatternSpec: one call of matches, of pattern.is_ambiguous or of          *)
(* RuleSet.is_ambiguous, on arguments drawn from the patterns below.        *)
(***************************************************************************)
\* the tuples of at most MaxArity members of S
Tuples(S) == UNION {[1..n -> S] : n \in 0..MaxArity}

\* the String patterns that iso_dates and enums build, and a named kind
\* that has no recognizer
Date == String("date", "convert_date")
Color == String("Color", "check_str_enum")
Opaque == String("opaque", NoArg)

Leaves ==
  {Number, Null, Bool, StringAny, StringExact("2020-01-01"),
   StringExact("RED"), Date, Color, Opaque, Unknown, Missing}

Arrays ==
  LET Elems == {Number, StringAny, Unknown}
  IN  {ArrayExact(e) : e \in Tuples(Elems)}
        \cup {ArrayHomog(e) : e \in Elems}

Objects ==
  LET Items == { <<StringExact("a"), Number>>, <<StringExact("a"), Null>>,
                 <<StringExact("b"), Number>> }
  IN  {ObjectExact(i) : i \in Tuples(Items)}
        \cup {ObjectHomog(StringAny, v) : v \in {Number, Null}}

Alts ==
  {Alternatives(a) : a \in Tuples({StringAny, Date, Unknown})}

\* nodes inside nodes: arrays of arrays, unions inside unions, unions inside
\* arrays and objects, and nodes built twice from the same parts
Nested ==
  { ArrayExact(<<ArrayExact(<<Number>>), Copy(ArrayExact(<<Number>>))>>),
    ArrayExact(<<Number, Copy(Number)>>),
    ArrayHomog(ArrayHomog(Number)),
    ArrayHomog(Alternatives(<<StringAny, Date>>)),
    ObjectExact(<< <<StringExact("a"), Alternatives(<<Number, Bool>>)>> >>),
    ObjectExact(<< <<StringExact("a"), Unknown>> >>),
    ObjectHomog(StringAny, ArrayHomog(Number)),
    Alternatives(<<ArrayExact(<<Number, Null>>), ArrayExact(<<Number>>)>>),
    Alternatives(<<Null, ArrayHomog(Number)>>),
    Alternatives(<<Null, ArrayHomog(Alternatives(<<StringAny, Date>>))>>),
    Alternatives(<<Number, StringAny, Date>>),
    Alternatives(<<Date, StringExact("RED"), Date>>),
    Alternatives(<<Alternatives(<<Number>>)>>),
    Alternatives(<<Number, Alternatives(<<Null, Number>>)>>),
    Alternatives(<<Alternatives(<<Null, StringAny>>), Number>>),
    Alternatives(<<Alternatives(<<Alternatives(<<Null, Number>>), Date>>),
                   Number>>) }

Patterns == Leaves \cup Arrays \cup Objects \cup Alts \cup Nested

\* RuleSet.show_pattern: the pattern that lookup(PATTERN, typ) returns, or
\* the exception it raises, for the types of the engine model (List[T] with
\* T = List[T] is given the forward action of T by its nested lookup) and
\* for Union[str, date] and Union[date, str]
show_pattern(typ) ==
  CASE typ = "Color" -> [pat |-> Color, exc |-> ""]
    [] typ = "StrOrDate" ->
         [pat |-> Alternatives(<<StringAny, Date>>), exc |-> ""]
    [] typ = "DateOrStr" ->
         [pat |-> Alternatives(<<Date, StringAny>>), exc |-> ""]
    [] typ = "ListNope" -> [pat |-> ArrayHomog(Unknown), exc |-> ""]
    [] typ = "ListT" -> [pat |-> Unknown, exc |-> "AssertionError"]
    [] OTHER -> [pat |-> Unknown, exc |-> ""]

Called(op, left, right, threshold, res, path, exc) ==
  [op |-> op, left |-> left, right |-> right, threshold |-> threshold,
   res |-> res, path |-> path, exc |-> exc]

\* matches(left, right)
PatMatches(left, right) ==
  /\ pat = NoCall
  /\ \E r \in {matches(left, right, NoCtx)} :
       pat' = Called("matches", left, right, always, r.res, <<>>, r.exc)
  /\ UNCHANGED <<rules, cache, heap, stack, result, nCalls, returned, failed,
                 scans, last, nOps>>

\* pattern.is_ambiguous(pattern, threshold)
PatIsAmbiguous(pattern, threshold) ==
  /\ pat = NoCall
  /\ \E r \in {is_ambiguous(pattern, threshold, <<>>)} :
       pat' = Called("is_ambiguous", pattern, pattern, threshold, never,
                     r.path, r.exc)
  /\ UNCHANGED <<rules, cache, heap, stack, result, nCalls, returned, failed,
                 scans, last, nOps>>

\* RuleSet.is_ambiguous(typ, threshold)
RuleSetIsAmbiguous(typ, threshold) ==
  /\ pat = NoCall
  /\ \E p \in {show_pattern(typ)} :
       \E r \in {IF p.exc # "" THEN PathRaise(p.exc)
                 ELSE is_ambiguous(p.pat, threshold, <<>>)} :
         pat' = Called("RuleSet.is_ambiguous", p.pat, p.pat, threshold, never,
                       r.path, r.exc)
  /\ UNCHANGED <<rules, cache, heap, stack, result, nCalls, returned, failed,
                 scans, last, nOps>>

\* matches_all(rs) on a sequence of members of Matches
PatMatchesAll(rs) ==
  /\ pat = NoCall
  /\ pat' = Called("matches_all", rs, rs, always, matches_all(rs), <<>>, "")
  /\ UNCHANGED <<rules, cache, heap, stack, result, nCalls, returned, failed,
                 scans, last, nOps>>

\* matches_any(rs) on a sequence of members of Matches
PatMatchesAny(rs) ==
  /\ pat = NoCall
  /\ pat' = Called("matches_any", rs, rs, always, matches_any(rs), <<>>, "")
  /\ UNCHANGED <<rules, cache, heap, stack, result, nCalls, returned, failed,
                 scans, last, nOps>>

PatternInit ==
  /\ rules = <<>>
  /\ cache = EmptyDict
  /\ heap = <<>>
  /\ stack = <<>>
  /\ result = [res |-> NoneRef, exc |-> NoExc]
  /\ nCalls = 0
  /\ returned = EmptyDict
  /\ failed = {}
  /\ scans = EmptyDict
  /\ last = NoOp
  /\ nOps = 0
  /\ pat = NoCall
  /\ MainThreadInit

PatternNext ==
  \/ /\ \E left \in Patterns, right \in Patterns : PatMatches(left, right)
     /\ SameThread
  \/ /\ \E pattern \in Patterns, threshold \in Matches :
          PatIsAmbiguous(pattern, threshold)
     /\ SameThread
  \/ /\ \E typ \in {"Color", "Nope", "RecA", "ListNope", "ListT", "StrOrDate",
                     "DateOrStr"},
           threshold \in Matches : RuleSetIsAmbiguous(typ, threshold)
     /\ SameThread
  \/ /\ \E rs \in Tuples(Matches) : PatMatchesAll(rs)
     /\ SameThread
  \/ /\ \E rs \in Tuples(Matches) : PatMatchesAny(rs)
     /\ SameThread

PatternSpec == PatternInit /\ [][PatternNext]_vars

(***************************************************************************)
(* Properties of matches (PatternSpec).                                     *)
(***************************************************************************)
MatchesCalled == pat.op = "matches"

\* matches(left, right) as a caller gets it; Never stands for a call that
\* raised, which the properties below exclude or forbid where they use it
Match(left, right) == matches(left, right, NoCtx).res
Raised(left, right) == matches(left, right, NoCtx).exc # ""

\* neither the pattern nor a node inside it is Unknown, Missing or an
\* Alternatives, the nodes whose comparison with themselves is fixed by
\* definition or is a reduction over branches
RECURSIVE Plain(_)
Plain(p) ==
  /\ p.kind \notin {"unknown", "alts"}
  /\ \A i \in 1..Len(p.kids) : Plain(p.kids[i])
  /\ \A i \in 1..Len(p.keys) : Plain(p.keys[i])

\* C13: for every pattern X, matches(X, X) returns Always.  Stated here for
\* the patterns made of atoms, strings, arrays and objects only.
C13_MatchesIsReflexive ==
  MatchesCalled /\ pat.left = pat.right /\ Plain(pat.left) =>
    pat.exc = "" /\ pat.res = always

\* C14: for two patterns of different node kinds, neither of them an
\* Alternatives, matches returns Never, except that it returns Never when
\* either side is Missing and Potential when either side is Unknown.
C14_DifferentKinds ==
  MatchesCalled /\ pat.left.kind # pat.right.kind
    /\ "alts" \notin {pat.left.kind, pat.right.kind} =>
    /\ pat.exc = ""
    /\ pat.res = IF Missing \in {pat.left, pat.right} THEN never
                 ELSE IF Unknown \in {pat.left, pat.right} THEN potential
                 ELSE never

\* the extent to which the entry (rk, rv) counts for the entry (lk, lv): both
\* the key patterns and the value patterns have to match
EntryMatch(lk, lv, rk, rv) == matches_all(<<Match(lk, rk), Match(lv, rv)>>)

\* the all-reduction over the entries of left of the any-reduction over the
\* entries of right, softened with Sometimes when both are homogeneous
ObjectReduction(left, right) ==
  LET red == matches_all(
        [i \in 1..Len(left.kids) |->
           matches_any([j \in 1..Len(right.kids) |->
              EntryMatch(left.keys[i], left.kids[i],
                         right.keys[j], right.kids[j])])])
  IN  IF left.homog /\ right.homog THEN matches_any(<<sometimes, red>>)
      ELSE red

\* C15: for two Object patterns, matches(left, right) is the all-reduction
\* over the entries of left of the any-reduction over the entries of right,
\* an entry of right counting for an entry of left to the extent that both
\* its key and its value match: a key that matches Never contributes Never
\* whatever the values are, a key that matches Always contributes the match
\* of the values; the result is softened with Sometimes when both objects are
\* homogeneous.  (A homogeneous left against a right without entries is the
\* early return of the code and is left out.)
C15_ObjectMatches ==
  MatchesCalled /\ pat.left.kind = "object" /\ pat.right.kind = "object"
    /\ ~(pat.left.homog /\ pat.right.kids = <<>>) =>
    pat.exc = "" /\ pat.res = ObjectReduction(pat.left, pat.right)

\* the all-reduction of the positionwise matches of the elements: the single
\* element of a homogeneous side is repeated to the length of a fixed-arity
\* other side, an unpaired position of two fixed-arity arrays counts Never;
\* the stronger of Sometimes and the reduction when both are homogeneous
ArrayReduction(left, right) ==
  LET ls == IF left.homog /\ ~right.homog
            THEN Cycle(left.kids, Len(right.kids)) ELSE left.kids
      rs == IF ~left.homog /\ right.homog
            THEN Cycle(right.kids, Len(left.kids)) ELSE right.kids
      n == IF Len(ls) >= Len(rs) THEN Len(ls) ELSE Len(rs)
      red == matches_all(
        [i \in 1..n |-> IF i <= Len(ls) /\ i <= Len(rs)
                        THEN Match(ls[i], rs[i]) ELSE never])
  IN  IF left.homog /\ right.homog THEN matches_any(<<sometimes, red>>)
      ELSE red

\* C16: for two Array patterns, matches(left, right) is Always when left is
\* homogeneous and right has no elements; otherwise it is the all-reduction
\* of the positionwise matches of the elements, as ArrayReduction gives it.
C16_ArrayMatches ==
  MatchesCalled /\ pat.left.kind = "array" /\ pat.right.kind = "array" =>
    /\ pat.exc = ""
    /\ pat.res = IF pat.left.homog /\ pat.right.kids = <<>> THEN always
                 ELSE ArrayReduction(pat.left, pat.right)

StringsCalled ==
  MatchesCalled /\ pat.left.kind = "string" /\ pat.right.kind = "string"

\* a String pattern that names a kind of strings: neither the generic string
\* nor an exact literal
Named(p) == p.name \notin {"str", "exact"}

\* C17: for two String patterns, a generic-string left gives Always; a
\* non-generic left against a generic-string right gives Sometimes; two exact
\* literals give Always when they are equal and Never otherwise; an exact
\* literal on the left against a named kind gives Always or Never as the
\* recognizer of the kind accepts the literal or not, and Potential when the
\* kind has no recognizer; two named kinds give Always when their names are
\* equal and Potential otherwise.
C17_StringMatches ==
  StringsCalled =>
    LET l == pat.left
        r == pat.right
    IN  /\ pat.exc = ""
        /\ l.name = "str" => pat.res = always
        /\ l.name # "str" /\ r.name = "str" => pat.res = sometimes
        /\ l.name = "exact" /\ r.name = "exact" =>
             pat.res = IF l.arg = r.arg THEN always ELSE never
        /\ l.name = "exact" /\ Named(r) =>
             pat.res = IF r.arg = NoArg THEN potential
                       ELSE IF Accepts(r.arg, l.arg) THEN always ELSE never
        /\ Named(l) /\ Named(r) =>
             pat.res = IF l.name = r.name THEN always ELSE potential

C17_Witness ==
  /\ StringsCalled
  /\ pat.left = StringExact("RED") /\ pat.right = Date
  /\ pat.res = never

\* the any-reduction of the matches of the pairs of unpacked branches
AltsReduction(left, right) ==
  LET pairs == product(_unpack(left), _unpack(right))
  IN  matches_any([n \in 1..Len(pairs) |-> Match(pairs[n][1], pairs[n][2])])

\* C18: when either side is an Alternatives, matches(left, right) is the
\* any-reduction of matches(l, r) over the branches l of left and r of right,
\* a side that is no Alternatives unpacking to itself; this holds for every
\* nesting of Alternatives, and no call raises.
C18_AlternativesMatches ==
  MatchesCalled /\ "alts" \in {pat.left.kind, pat.right.kind} =>
    pat.exc = "" /\ pat.res = AltsReduction(pat.left, pat.right)

AmbiguousCalled == pat.op \in {"is_ambiguous", "RuleSet.is_ambiguous"}

\* the branches alts[i] that some later branch alts[j] matches at the
\* threshold or below it (counted from 1)
Shadowing(alts, threshold) ==
  {i \in 1..Len(alts) :
     \E j \in (i + 1)..Len(alts) : Match(alts[i], alts[j]) <= threshold}

\* comparing two branches raises nothing
NoPairRaises(alts) ==
  \A i \in 1..Len(alts) : \A j \in (i + 1)..Len(alts) :
     ~Raised(alts[i], alts[j])

\* the path that ends in the first shadowing branch, or the empty path
ExpectedPath(prefix, alts, threshold) ==
  LET hits == Shadowing(alts, threshold)
      first == CHOOSE i \in hits : \A k \in hits : i <= k
  IN  IF hits = {} THEN <<>>
      ELSE Append(prefix, "alternative " \o ToString(first - 1))

C20_AmbiguityNeverRaises ==
  AmbiguousCalled => pat.exc = ""

\* the members of a sequence
Range(rs) == {rs[i] : i \in 1..Len(rs)}

\* C21: the all-reduction returns the greatest of its inputs, and Always for
\* the empty sequence; the any-reduction returns the least of its inputs, and
\* Never for the empty sequence; the order is the numeric one,
\* Always < Sometimes < Potential < Never.
C21_Reductions ==
  /\ always < sometimes /\ sometimes < potential /\ potential < never
  /\ pat.op = "matches_all" =>
       IF pat.left = <<>> THEN pat.res = always
       ELSE /\ pat.res \in Range(pat.left)
            /\ \A m \in Range(pat.left) : m <= pat.res
  /\ pat.op = "matches_any" =>
       IF pat.left = <<>> THEN pat.res = never
       ELSE /\ pat.res \in Range(pat.left)
            /\ \A m \in Range(pat.left) : pat.res <= m

C21_Witness ==
  /\ pat.op = "matches_all"
  /\ pat.left = <<sometimes, potential>>
  /\ pat.res = potential

(***************************************************************************)
(* de_flight on its own (CacheSpec).                                        *)
(***************************************************************************)
\* C26: de_flight(verb, typ, forward) removes the entry of (verb, typ) when
\* the entry is the forward action passed in, and only then; when the entry
\* is absent, resolved or another forward action, or when None is passed, it
\* leaves the cache dict as it was; it never raises, and a second call with
\* the same arguments changes nothing.
C26_DeFlightOnlyItsOwnCell ==
  last.op = "de_flight" =>
    /\ last.exc = ""
    /\ cache = IF last.arg.kind = "fwd" /\ last.present = last.arg
               THEN DictDel(last.before, Key(last.verb, last.typ))
               ELSE last.before
    /\ \E o \in {de_flight(cache, heap, last.verb, last.typ, last.arg)} :
         o.cache = cache /\ o.exc = ""

(***************************************************************************)
(* The forward action in flight (Spec).                                     *)
(***************************************************************************)
\* frame n is past in_flight and before the finally clause
InTry(n) == stack[n].pc \in {"scan", "rule", "except"}

\* the forward actions made for (verb, typ) after the one at heap index id
LaterCells(verb, typ, id) ==
  {j \in (id + 1)..Len(heap) :
     heap[j].rule = "" /\ heap[j].verb = verb /\ heap[j].typ = typ}

\* C24: on a cache miss for a hashable type the forward action is in the
\* cache before the first rule is called and stays there while the rules
\* run; a lookup of the same (verb, type) made from inside a rule returns
\* that forward action by the cached path, calling no rule and no fallback
\* and making no second forward action.
C24_InFlightBeforeRules ==
  \A n \in 1..Len(stack) :
    InTry(n) /\ stack[n].typ \in Hashable =>
      /\ stack[n].fwd.kind = "fwd"
      /\ SubSeq(stack[n].ops, 1, 2) = <<"get", "in_flight">>
      /\ DictGet(cache, Key(stack[n].verb, stack[n].typ)) = stack[n].fwd
      /\ LaterCells(stack[n].verb, stack[n].typ, stack[n].fwd.id) = {}
      /\ \A m \in (n + 1)..Len(stack) :
           stack[m].verb = stack[n].verb /\ stack[m].typ = stack[n].typ =>
             /\ stack[m].pc \in {"start", "done"}
             /\ stack[m].fwd = NoneRef
             /\ stack[m].invoked = <<>>
             /\ stack[m].fb = 0
             /\ stack[m].pc = "done" =>
                  /\ stack[m].via = "cached"
                  /\ stack[m].exc = NoExc
                  /\ stack[m].res = stack[n].fwd

C24_Witness ==
  /\ Len(stack) = 3 /\ Running("done")
  /\ InTry(1) /\ stack[1].typ = "RecA" /\ stack[1].invoked # <<>>
  /\ top.verb = stack[1].verb /\ top.typ = "RecA"
  /\ top.via = "cached"
  /\ top.res = stack[1].fwd
  /\ top.res.kind = "fwd"

(***************************************************************************)
(* The life of a cache entry (Spec).                                        *)
(***************************************************************************)
\* the lookup that took the step ends with no action: it raises or gives None
EndsWithout ==
  /\ stack' # <<>>
  /\ stack'[Len(stack')].pc = "done"
  /\ stack'[Len(stack')].res = NoneRef

\* one step of the entry of key k: it stays as it is, or goes from absent to
\* a forward action, or from a forward action to an action, or from a forward
\* action to absent, which only a lookup that ends with no action does
EntryStep(k) ==
  LET a == DictGet(cache, k)
      b == DictGet(cache', k)
  IN  \/ a = b
      \/ a = NoneRef /\ b.kind = "fwd"
      \/ a.kind = "fwd" /\ b = NoneRef /\ EndsWithout
      \/ a.kind = "fwd" /\ b.kind \notin {"none", "fwd"}

\* C25: under any sequence of lookup calls, nested or not, the entry of a
\* (verb, type) pair only goes from absent to in flight, from in flight to
\* resolved, or from in flight back to absent: never from absent straight to
\* resolved, and a resolved entry is never removed nor replaced.  The entry
\* goes back to absent only in the finally clause of a lookup that found no
\* action.
C25_EntryLifeCycle ==
  [][\A k \in DOMAIN cache \cup DOMAIN cache' : EntryStep(k)]_vars

C25_Witness ==
  /\ Len(stack) = 2 /\ Running("done") /\ top.via = "computed"
  /\ top.fwd.kind = "fwd"
  /\ heap[top.fwd.id].call = top.res
  /\ cache[Key(top.verb, top.typ)] = top.res
  /\ InTry(1) /\ cache[Key(stack[1].verb, stack[1].typ)] = stack[1].fwd
  /\ \E k \in failed : k \notin DOMAIN cache

\* the keys whose cache entry is a forward action in flight
InFlightKeys == {k \in DOMAIN cache : cache[k].kind = "fwd"}

\* C30: when an outermost lookup returns or raises, no entry of the cache is
\* a forward action in flight: every forward action put in flight during the
\* call, at any depth, has been replaced by an action or removed.
C30_NothingLeftInFlight ==
  /\ Len(stack) = 1 /\ Running("done") => InFlightKeys = {}
  /\ stack = <<>> => InFlightKeys = {}

C30_Witness ==
  /\ Len(stack) = 1 /\ Running("done")
  /\ top.exc # NoExc /\ top.via = "raised" /\ top.fwd.kind = "fwd"
  /\ \E j \in 1..Len(heap) :
       /\ j # top.fwd.id
       /\ heap[j].rule = "" /\ heap[j].call = NoneRef
  /\ InFlightKeys = {}

(***************************************************************************)
(* ThreadLocalCache: one engine, two threads.  cache, stack, result and the *)
(* history variables are those of the running thread; parked holds those of *)
(* the threads that are not running.  The rule list and the heap are        *)
(* shared.                                                                  *)
(***************************************************************************)
Threads == {"main", "worker"}

\* a thread that has made no call: threading.local() has no attribute cache
Fresh ==
  [cache |-> EmptyDict, stack |-> <<>>,
   result |-> [res |-> NoneRef, exc |-> NoExc],
   returned |-> EmptyDict, failed |-> {}, scans |-> EmptyDict]

\* the thread-local state of the running thread
Running_ ==
  [cache |-> cache, stack |-> stack, result |-> result,
   returned |-> returned, failed |-> failed, scans |-> scans]

\* a variant with one dict for every thread, as SimpleCache has
OneCache(c, p, u) == c

\* the property ThreadLocalCache.cache evaluated in thread u, when c is the
\* dict of the thread that ran last and p the state of the threads that are
\* not running: the dict stored in threading.local() for u, a new one if
\* there is none
LocalCache(c, p, u) ==
  IF u \in DOMAIN p THEN p[u].cache ELSE EmptyDict

\* the interpreter switches to thread u
Switch(u) ==
  /\ u # thread
  /\ LET p == DictSet(parked, thread, Running_)
         st == IF u \in DOMAIN p THEN p[u] ELSE Fresh
     IN  /\ thread' = u
         /\ parked' = DictDel(p, u)
         /\ cache' = LocalCache(cache, p, u)
         /\ stack' = st.stack
         /\ result' = st.result
         /\ returned' = st.returned
         /\ failed' = st.failed
         /\ scans' = st.scans
  /\ UNCHANGED <<rules, heap, nCalls, last, nOps, pat, owner, prog>>

\* the lookups the threads make
ThreadRequests ==
  {<<JSON2PY, "ListT", FALSE>>, <<JSON2PY, "ListNope", FALSE>>,
   <<JSON2PY, None, FALSE>>, <<JSON2PY, "BadOpt", FALSE>>,
   <<PATTERN, "ListT", FALSE>>}

ThreadNext ==
  \/ /\ \E r \in ThreadRequests : Call(r[1], r[2], r[3])
     /\ SameThread
  \/ /\ LookupMissing
     /\ SameThread
  \/ /\ LookupCached
     /\ SameThread
  \/ /\ LookupInFlight
     /\ SameThread
  \/ /\ RuleDeclines
     /\ SameThread
  \/ /\ RuleStarts
     /\ SameThread
  \/ /\ RuleRaises
     /\ SameThread
  \/ /\ RuleLooksUp
     /\ SameThread
  \/ /\ RuleReturns
     /\ SameThread
  \/ /\ RuleAsserts
     /\ SameThread
  \/ /\ Propagate
     /\ SameThread
  \/ /\ Fallback
     /\ SameThread
  \/ /\ Return
     /\ SameThread
  \/ \E u \in Threads : Switch(u)

ThreadSpec == Init /\ [][ThreadNext]_vars

\* the objects of the heap that are entries of the dict c
HeapEntries(c) ==
  {c[k] : k \in {x \in DOMAIN c : c[x].kind \in {"fwd", "action"}}}

\* the forward action f is unfulfilled
Unfulfilled(f) == f.kind = "fwd" /\ heap[f.id].call = NoneRef

\* C22: with a ThreadLocalCache, under every interleaving of the lookups of
\* two threads, each thread reads and writes its own dict only: every entry
\* of a thread's dict was put there by that thread, so that get never gives a
\* thread a forward action or an action that another thread registered; and
\* an outermost lookup, in either thread, never returns a forward action that
\* is unfulfilled.
C22_ThreadsKeepApart ==
  /\ \A e \in HeapEntries(cache) : owner[e.id] = thread
  /\ \A u \in DOMAIN parked :
       \A e \in HeapEntries(parked[u].cache) : owner[e.id] = u
  /\ Running("done") /\ top.via = "cached"
       /\ top.res.kind \in {"fwd", "action"} => owner[top.res.id] = thread
  /\ Len(stack) = 1 /\ Running("done") => ~Unfulfilled(top.res)
  /\ stack = <<>> => ~Unfulfilled(result.res)
  /\ \A u \in DOMAIN parked :
       parked[u].stack = <<>> => ~Unfulfilled(parked[u].result.res)

C22_Witness ==
  /\ thread = "worker"
  /\ Len(stack) = 1 /\ Running("done")
  /\ top.verb = JSON2PY /\ top.typ = "ListT" /\ top.via = "computed"
  /\ owner[top.res.id] = "worker"
  /\ "main" \in DOMAIN parked
  /\ Len(parked["main"].stack) = 1
  /\ parked["main"].stack[1].verb = JSON2PY
  /\ parked["main"].stack[1].typ = "ListT"
  /\ parked["main"].stack[1].pc = "rule"
  /\ Unfulfilled(parked["main"].stack[1].fwd)
  /\ parked["main"].cache[Key(JSON2PY, "ListT")] = parked["main"].stack[1].fwd

(***************************************************************************)
(* errors.py.  A str is a sequence of pieces, so that concatenation is \o.  *)
(* A value is [cls, original, lead, context]: for a str or an int, original *)
(* is its text; for a _Context the three fields are its slots.              *)
(***************************************************************************)
Text(cls, s) == [cls |-> cls, original |-> s, lead |-> <<>>, context |-> <<>>]

\* "".join(strs)
RECURSIVE Join(_)
Join(strs) == IF strs = <<>> THEN <<>> ELSE Head(strs) \o Join(Tail(strs))

\* reversed(seq)
Reversed(seq) == [i \in 1..Len(seq) |-> seq[Len(seq) + 1 - i]]

\* _Context(original, lead, context)
_Context(original, lead, context) ==
  [cls |-> "_Context", original |-> original, lead |-> lead,
   context |-> <<context>>]

\* str(value); _Context.__str__ for a _Context
Str(value) ==
  IF value.cls = "_Context"
  THEN value.original.original \o value.lead
         \o Join(Reversed(value.context))
  ELSE value.original

\* _Context.add(exc, context): the exception afterwards
Add(exc, context) ==
  IF exc.args # <<>> /\ exc.args[1].cls = "_Context"
  THEN [exc EXCEPT !.args[1].context = Append(@, context)]
  ELSE IF exc.args # <<>>
       THEN [exc EXCEPT !.args[1] = _Context(@, <<"; at ">>, context)]
       ELSE [exc EXCEPT !.args = <<_Context(Text("str", <<>>), <<"At ">>,
                                            context)>>]

\* the exception classes raised: ValueError derives from Exception,
\* KeyboardInterrupt from BaseException only
ExcClasses == {"ValueError", "KeyboardInterrupt"}
IsException(cls) == cls = "ValueError"

\* ErrorContext.__exit__(exc_type, exc_value, traceback)
__exit__(context, exc_value) ==
  IF exc_value.cls # "" THEN Add(exc_value, Join(context)) ELSE exc_value

\* err_ctx(context, func), func having raised exc_value or returned
err_ctx(context, exc_value) ==
  IF exc_value.cls # "" /\ IsException(exc_value.cls)
  THEN Add(exc_value, context)
  ELSE exc_value

\* no exception: the innermost call returned
NoException == [cls |-> "", args |-> <<>>]

\* the strings given as context, as tests/test_errors.py gives them
ContextStrings == {<<".", "alpha">>, <<".", "beta">>}
ContextTuples == {<<<<".">>, <<"alpha">>>>, <<<<".">>, <<"beta">>>>}
Blocks ==
  [how : {"with"}, context : ContextTuples]
    \cup [how : {"err_ctx"}, context : ContextStrings]

\* the args of the exception raised
ArgsRaised ==
  { <<>>,
    <<Text("str", <<"message">>)>>,
    <<Text("str", <<"two">>), Text("str", <<"parts">>)>>,
    <<Text("int", <<"5">>)>> }

\* the context string of a block
ContextOf(b) == IF b.how = "with" THEN Join(b.context) ELSE b.context

\* a block is entered: `with ErrorContext(*context):` or err_ctx(context, f)
Enter(b) ==
  /\ prog.pc = "enter"
  /\ Len(prog.blocks) < MaxBlocks
  /\ prog' = [prog EXCEPT !.blocks = Append(@, b)]
  /\ UNCHANGED <<rules, cache, heap, stack, result, nCalls, returned, failed,
                 scans, last, nOps, pat, thread, parked, owner>>

\* the code inside the innermost block raises cls(*args)
Raise_(cls, args) ==
  /\ prog.pc = "enter"
  /\ prog' = [prog EXCEPT !.pc = "raised",
                          !.exc = [cls |-> cls, args |-> args],
                          !.orig = args]
  /\ UNCHANGED <<rules, cache, heap, stack, result, nCalls, returned, failed,
                 scans, last, nOps, pat, thread, parked, owner>>

\* the code inside the innermost block returns
Return_ ==
  /\ prog.pc = "enter"
  /\ prog' = [prog EXCEPT !.pc = "returned"]
  /\ UNCHANGED <<rules, cache, heap, stack, result, nCalls, returned, failed,
                 scans, last, nOps, pat, thread, parked, owner>>

\* the innermost block still open is left
Exit ==
  /\ prog.pc \in {"raised", "returned"}
  /\ prog.blocks # <<>>
  /\ LET n == Len(prog.blocks)
         b == prog.blocks[n]
     IN  prog' = [prog EXCEPT
                    !.blocks = SubSeq(@, 1, n - 1),
                    !.left = <<b>> \o @,
                    !.exc = IF b.how = "with"
                            THEN __exit__(b.context, @)
                            ELSE err_ctx(b.context, @)]
  /\ UNCHANGED <<rules, cache, heap, stack, result, nCalls, returned, failed,
                 scans, last, nOps, pat, thread, parked, owner>>

ErrorInit ==
  /\ rules = <<>>
  /\ cache = EmptyDict
  /\ heap = <<>>
  /\ stack = <<>>
  /\ result = [res |-> NoneRef, exc |-> NoExc]
  /\ nCalls = 0
  /\ returned = EmptyDict
  /\ failed = {}
  /\ scans = EmptyDict
  /\ last = NoOp
  /\ nOps = 0
  /\ pat = NoCall
  /\ thread = "main"
  /\ parked = EmptyDict
  /\ owner = <<>>
  /\ prog = [pc |-> "enter", blocks |-> <<>>, left |-> <<>>,
             exc |-> NoException, orig |-> <<>>]

ErrorNext ==
  \/ \E b \in Blocks : Enter(b)
  \/ \E cls \in ExcClasses, args \in ArgsRaised : Raise_(cls, args)
  \/ Return_
  \/ Exit

ErrorSpec == ErrorInit /\ [][ErrorNext]_vars

\* the contexts of the blocks left so far, the outermost first, concatenated
PathLeft == Join([i \in 1..Len(prog.left) |-> ContextOf(prog.left[i])])

\* C23: when an exception has left nested ErrorContext blocks c1 (outermost)
\* to cn (innermost), its first argument reads as the original first argument,
\* then "; at ", then c1 ... cn concatenated; when it had no arguments its
\* only argument reads "At " and then c1 ... cn; the arguments after the
\* first are as they were; and a block that is an err_ctx(context, func) call
\* does what an ErrorContext(context) block does.
C23_ContextOutermostFirst ==
  prog.pc = "raised" /\ prog.left # <<>> =>
    IF prog.orig = <<>>
    THEN /\ Len(prog.exc.args) = 1
         /\ Str(prog.exc.args[1]) = <<"At ">> \o PathLeft
    ELSE /\ Len(prog.exc.args) = Len(prog.orig)
         /\ Str(prog.exc.args[1])
              = Str(prog.orig[1]) \o <<"; at ">> \o PathLeft
         /\ \A i \in 2..Len(prog.orig) : prog.exc.args[i] = prog.orig[i]

(***************************************************************************)
(* The visited set of matches (PatternSpec).                                *)
(***************************************************************************)
\* the nodes of a pattern tree: the pattern, and the nodes of its branches,
\* elements, keys and values
RECURSIVE Nodes(_)
Nodes(p) ==
  {p} \cup UNION {Nodes(p.kids[i]) : i \in 1..Len(p.kids)}
      \cup UNION {Nodes(p.keys[i]) : i \in 1..Len(p.keys)}

\* C27: matches terminates on every pair of patterns, with a member of
\* Matches or an exception.  The pair is put in the visited set before its
\* children are compared, the visited set only ever holds pairs of nodes of
\* the two trees (or the fill value Missing), and a call on a pair that is in
\* the visited set returns Potential at once, adding nothing.
C27_VisitedPairsEndMatches ==
  MatchesCalled =>
    \E r \in {matches(pat.left, pat.right, NoCtx)} :
      /\ pat.res = r.res /\ pat.exc = r.exc
      /\ r.res \in Matches
      /\ <<pat.left, pat.right>> \in r.ctx
      /\ r.ctx \subseteq (Nodes(pat.left) \cup {Missing})
                           \X (Nodes(pat.right) \cup {Missing})
      /\ \A pair \in r.ctx :
           matches(pair[1], pair[2], <<r.ctx>>) = Ret(potential, r.ctx)

C27_Witness ==
  /\ MatchesCalled
  /\ pat.left = ArrayExact(<<Number, Number>>)
  /\ pat.right = pat.left
  /\ pat.res = potential
  /\ <<Number, Number>> \in matches(pat.left, pat.right, NoCtx).ctx

(***************************************************************************)
(* The structural comparison: matches and the _matches methods with every  *)
(* sub-comparison carried out, no visited set being kept.                   *)
(***************************************************************************)
Value(res) == [res |-> res, exc |-> ""]

RECURSIVE StructuralMatches(_, _)
RECURSIVE Structural_matches(_, _)
RECURSIVE StructuralPairs(_, _)
RECURSIVE StructuralArrayPairs(_, _)
RECURSIVE StructuralRow(_, _, _, _, _)
RECURSIVE StructuralRows(_, _, _, _)

StructuralMatches(left, right) ==
  StructuralPairs(product(_unpack(left), _unpack(right)), <<>>)

StructuralPairs(pairs, rs) ==
  IF pairs = <<>> THEN Value(matches_any(rs))
  ELSE The({ IF r.exc # "" THEN r
             ELSE StructuralPairs(Tail(pairs), Append(rs, r.res)) :
             r \in {Structural_matches(pairs[1][1], pairs[1][2])} })

StructuralArrayPairs(pairs, rs) ==
  IF pairs = <<>> THEN Value(matches_all(rs))
  ELSE The({ IF r.exc # "" THEN r
             ELSE StructuralArrayPairs(Tail(pairs), Append(rs, r.res)) :
             r \in {StructuralMatches(pairs[1][1], pairs[1][2])} })

StructuralArray(self, other) ==
  IF other.kind # "array" THEN Value(never)
  ELSE IF self.homog /\ other.kids = <<>> THEN Value(always)
  ELSE LET left == IF self.homog /\ ~other.homog
                   THEN Cycle(self.kids, Len(other.kids)) ELSE self.kids
           right == IF ~self.homog /\ other.homog
                    THEN Cycle(other.kids, Len(self.kids)) ELSE other.kids
       IN  The({ IF r.exc = "" /\ self.homog /\ other.homog
                 THEN Value(matches_any(<<sometimes, r.res>>))
                 ELSE r :
                 r \in {StructuralArrayPairs(
                          zip_longest(left, right, Missing), <<>>)} })

StructuralRow(lk, lv, other, j, rs) ==
  IF j > Len(other.kids) THEN Value(matches_any(rs))
  ELSE The({ IF k.exc # "" THEN k
             ELSE The({ IF v.exc # "" THEN v
                        ELSE StructuralRow(lk, lv, other, j + 1,
                                           Append(rs, PyAnd(k.res, v.res))) :
                        v \in {IF Falsy(k.res) THEN k
                               ELSE StructuralMatches(lv, other.kids[j])} }) :
             k \in {StructuralMatches(lk, other.keys[j])} })

StructuralRows(self, other, i, rs) ==
  IF i > Len(self.kids) THEN Value(matches_all(rs))
  ELSE The({ IF r.exc # "" THEN r
             ELSE StructuralRows(self, other, i + 1, Append(rs, r.res)) :
             r \in {StructuralRow(self.keys[i], self.kids[i], other, 1,
                                  <<>>)} })

StructuralObject(self, other) ==
  IF other.kind # "object" THEN Value(never)
  ELSE IF self.homog /\ other.kids = <<>> THEN Value(always)
  ELSE The({ IF r.exc = "" /\ self.homog /\ other.homog
             THEN Value(matches_any(<<sometimes, r.res>>))
             ELSE r :
             r \in {StructuralRows(self, other, 1, <<>>)} })

Structural_matches(self, other) ==
  CASE self.kind = "atom" ->
         Value(IF other.kind = "atom" /\ PyEq(self.value, other.value)
               THEN always ELSE never)
    [] self.kind = "string" -> Value(StringMatches(self, other))
    [] self.kind = "unknown" -> Value(self.match)
    [] self.kind = "alts" -> [res |-> never, exc |-> "NotImplementedError"]
    [] self.kind = "array" -> StructuralArray(self, other)
    [] self.kind = "object" -> StructuralObject(self, other)

\* C28: for pattern trees, which are acyclic, the visited set does not change
\* the answer: matches(left, right) gives what the structural comparison
\* gives, in which every sub-comparison is carried out; so a pair of nodes
\* that is compared at two positions of a tree gives the same at both.
C28_VisitedSetIsNeutral ==
  MatchesCalled =>
    \E r \in {StructuralMatches(pat.left, pat.right)} :
      pat.res = r.res /\ pat.exc = r.exc

(***************************************************************************)
(* Ambiguity below the top of the pattern (PatternSpec).                    *)
(***************************************************************************)
\* the Alternatives nodes of the tree of p in which an earlier branch matches
\* a later one at the threshold or below it
AmbiguousNodes(p, threshold) ==
  {n \in Nodes(p) :
     /\ n.kind = "alts"
     /\ NoPairRaises(n.kids)
     /\ Shadowing(n.kids, threshold) # {}}

\* C29: is_ambiguous returns a path that is not empty whenever an Alternatives
\* node anywhere in the tree has an earlier branch that matches a later one
\* at the threshold, also when that node sits in an array or object that is a
\* branch of an outer Alternatives which is not ambiguous itself, as in the
\* pattern of Optional[List[Union[str, date]]].
C29_AmbiguityFoundAtAnyDepth ==
  AmbiguousCalled /\ pat.exc = ""
      /\ AmbiguousNodes(pat.left, pat.threshold) # {} =>
    pat.path # <<>>

====
